---- MODULE Spec2Model ----
(***************************************************************************)
(* State machine of the wallpaper visualizer session (src/App.tsx) and of  *)
(* its two service clients (src/services/geminiService.ts).                *)
(*                                                                         *)
(* Conventions.                                                            *)
(*  - A nullable value (T | null, or an omitted JSON field) is a tuple:    *)
(*    Null is <<>> and a present value v is <<v>>.                         *)
(*  - Normalized coordinates are held in tenths of a percent, so the      *)
(*    0..100 range is 0..1000 and the 0.5 threshold is 5. The code holds   *)
(*    them as doubles: RoundedAboveThreshold lists where the rounding of   *)
(*    the doubles decides a comparison that is an equality in tenths.      *)
(*  - Centimetres are held in tenths of a centimetre (29.7 cm is 297).     *)
(*  - Not-a-number, which a division of 0 by 0 yields, is held as NaN, a  *)
(*    value outside the range of the clamped coordinates.                  *)
(*  - A task of the event loop (event handler, reader callback, answer    *)
(*    of the service) starts only when no continuation of startProcess is  *)
(*    in the microtask queue (MicrotaskPending).                           *)
(*  - mousePos (App.tsx:27) is written by handleMouseMove and read by      *)
(*    nothing; it is left out of the state.                                *)
(***************************************************************************)
EXTENDS Integers, Sequences, FiniteSets, Bags, TLC

VARIABLES
  roomImage,        \* App.tsx:18  ImageUpload | null
  wallpaperImage,   \* App.tsx:19  ImageUpload | null
  refType,          \* App.tsx:20  ReferenceType
  refHeight,        \* App.tsx:21  number (tenths of a cm)
  isDrawing,        \* App.tsx:23
  startPoint,       \* App.tsx:24  Point | null
  currentBox,       \* App.tsx:25  Box | null
  completedBoxes,   \* App.tsx:26  Box[]
  isAnalyzing,      \* App.tsx:30
  isGenerating,     \* App.tsx:31
  visualizedImage,  \* App.tsx:32  string | null
  metadata,         \* App.tsx:33  VisualizerState | null
  error,            \* App.tsx:34  string | null
  keySelected,      \* App.tsx:35
  readers,          \* bag of the FileReaders started by handleFileUpload, not yet ended
  procs,            \* startProcess invocations suspended at an await; resp is how
                    \* the awaited promise settled, req the last request made
  keyDialogs,       \* handleSelectKey invocations suspended at openSelectKey
  imgRect,          \* imgRef.current.getBoundingClientRect() (App.tsx:82): page layout
  lastOp            \* history: the handler or continuation that ran last

vars == << roomImage, wallpaperImage, refType, refHeight, isDrawing, startPoint,
           currentBox, completedBoxes, isAnalyzing, isGenerating,
           visualizedImage, metadata, error, keySelected, readers, procs,
           keyDialogs, imgRect, lastOp >>

(***************************************************************************)
(* Bounds of the model.                                                    *)
(***************************************************************************)
MaxBoxes == 2
MaxReaders == 2
MaxProcs == 2
MaxKeyDialogs == 1

(***************************************************************************)
(* Values.                                                                 *)
(***************************************************************************)
Null == << >>
Some(v) == << v >>

A4_PAPER == "A4_paper"
DOOR_FRAME == "Door"
A4HeightCm == 297
DefaultRefHeight == 2100
MaxCoord == 1000
ThresholdTenths == 5

ValidationMsg == "Please draw at least one area box and upload a pattern before beginning."
SynthesisFailedMsg == "Atelier synthesis failed. Please re-check markers and spatial calibration."
AuthSignature == "Requested entity was not found."
NoImageMsg == "Visualization synthesis failed"
DataUriPrefix == "data:image/png;base64,"

(***************************************************************************)
(* Inputs: files, pointer events, service responses.                       *)
(***************************************************************************)
PngFile == [type |-> "image/png", b64 |-> "iVBOR"]
Files == { PngFile }
FileChoices == { Null } \cup { Some(f) : f \in Files }

\* FileReader.readAsDataURL: "data:<type>;base64,<payload>", held as the list
\* of its ','-separated segments; Null when the read failed.
ReadAsDataURL(file, ok) ==
  IF ok THEN Some(<< "data:" \o file.type \o ";base64", file.b64 >>) ELSE Null

ImgRect == [left |-> 10, top |-> 20, width |-> 1000, height |-> 1000]
MouseEvent(x, y) == [touches |-> Null, clientX |-> x, clientY |-> y]
\* On ImgRect these are the points (0.9, 0), (1.4, 0.6) and (1.5, 0.5).
MouseEvents == { MouseEvent(19, 20), MouseEvent(24, 26), MouseEvent(25, 25) }
TouchEvent(x, y) ==
  [touches |-> Some(<< [clientX |-> x, clientY |-> y] >>), clientX |-> 0, clientY |-> 0]
\* Bounding rectangles of the rendered image. The drawing surface is a block
\* whose only in-flow child is the image (App.tsx:238-251), so it has the
\* image's size, and a mouse event reaches its handlers only where both sides
\* are positive.
ImgRects ==
  { ImgRect, [left |-> 0, top |-> 0, width |-> 20, height |-> 40],
    [left |-> 100, top |-> 0, width |-> 500, height |-> 250] }
\* The event is a mouse event over the area of the rectangle: the surface has
\* mouse handlers only (App.tsx:240-243), and the browser delivers an event to
\* it on [left, left + width) x [top, top + height); on the right or bottom
\* edge the pointer is over another element.
OnSurface(e, rect) ==
  /\ e.touches = Null
  /\ e.clientX \in rect.left..(rect.left + rect.width - 1)
  /\ e.clientY \in rect.top..(rect.top + rect.height - 1)
\* Mouse positions on the top left corner, inside and on the last pixel of the
\* rectangles.
SurfaceEvents ==
  MouseEvents \cup { MouseEvent(10, 20), MouseEvent(1009, 1019), MouseEvent(0, 0),
                     MouseEvent(19, 39), MouseEvent(100, 0), MouseEvent(599, 249),
                     MouseEvent(350, 125) }
\* Arguments of getNormalizedCoords as its parameter type allows (App.tsx:80):
\* the positions over the rectangles, positions on their right and bottom
\* edges, left of, above, right of and below them, and a touch.
PointerEvents ==
  SurfaceEvents \cup { MouseEvent(1010, 1020), MouseEvent(20, 40), MouseEvent(600, 250),
                       MouseEvent(5, 10), MouseEvent(2000, 520), MouseEvent(12, 2000),
                       TouchEvent(510, 270) }
NaN == -1

Min(a, b) == IF a < b THEN a ELSE b
Max(a, b) == IF a > b THEN a ELSE b
Abs(a) == IF a < 0 THEN -a ELSE a

\* Mutant of ClampedPercent: the quotient is returned without the clamp.
ClampedPercentUnclamped(offset, size) ==
  IF size = 0
  THEN IF offset = 0 THEN NaN ELSE IF offset > 0 THEN MaxCoord ELSE 0
  ELSE (offset * MaxCoord) \div size

\* Math.max(0, Math.min(100, (offset / size) * 100)) (App.tsx:91-93). With
\* size = 0 the quotient is Infinity, -Infinity or, for offset = 0, NaN;
\* Math.min and Math.max return NaN when an argument is NaN.
ClampedPercent(offset, size) ==
  IF size = 0
  THEN IF offset = 0 THEN NaN ELSE IF offset > 0 THEN MaxCoord ELSE 0
  ELSE Max(0, Min(MaxCoord, (offset * MaxCoord) \div size))

\* App.tsx:80-94. img is imgRef.current (Null before the <img> is mounted).
GetNormalizedCoords(e, img) ==
  IF img = Null THEN Null
  ELSE LET rect == img[1]
           clientX == IF e.touches # Null THEN e.touches[1][1].clientX ELSE e.clientX
           clientY == IF e.touches # Null THEN e.touches[1][1].clientY ELSE e.clientY
           x == ClampedPercent(clientX - rect.left, rect.width)
           y == ClampedPercent(clientY - rect.top, rect.height)
       IN  Some(<< x, y >>)

Box(s, e) == [start |-> s, end |-> e]

\* The estimation payload: an omitted field is Null.
Region1 == [points |-> << <<0, 0>>, <<6, 0>>, <<6, 6>>, <<0, 6>> >>,
            width_cm |-> 1400, height_cm |-> 2500, area_sq_m |-> 35]
FullPayload ==
  [calibration |-> Some([reference_type |-> A4_PAPER, real_world_cm |-> A4HeightCm]),
   wallpaper |-> Some([master_width_cm |-> 5000, master_height_cm |-> 3000,
                       roll_width_cm |-> 700, roll_length_cm |-> 3000]),
   regions |-> Some(<< Region1 >>),
   total_rolls_estimated |-> Some(2)]
EmptyPayload ==
  [calibration |-> Null, wallpaper |-> Null, regions |-> Null,
   total_rolls_estimated |-> Null]
RequiredFields == { "calibration", "wallpaper", "regions", "total_rolls_estimated" }
\* A payload whose total is not the sum of its regions' strips.
MiscountedPayload == [FullPayload EXCEPT !.total_rolls_estimated = Some(5)]
Payloads ==
  { FullPayload, [FullPayload EXCEPT !.total_rolls_estimated = Null],
    MiscountedPayload }

\* response.text of the analysis service: empty, not JSON, or the JSON of a payload.
EmptyText == << >>
MalformedText == << "malformed" >>
JsonText(p) == << "json", p >>
EstimateTexts == { EmptyText, MalformedText } \cup { JsonText(p) : p \in Payloads }

\* Mutant of Includes: the message has to be the searched text exactly.
IncludesWhole(message, s) == message = << s >>

\* An Error's message, held as the list of the substrings that make it up.
Includes(message, s) == \E i \in DOMAIN message : message[i] = s
AuthFailure == << "ApiError 404: ", AuthSignature >>
NetworkFailure == << "fetch failed" >>
JsonSyntaxError == << "Unexpected token in JSON" >>
RegionsTypeError == << "Cannot read properties of undefined (reading 'map')" >>
NoImageError == << NoImageMsg >>
ServiceFailures == { AuthFailure, NetworkFailure }

\* A part of the synthesis-service response.
TextPart == [inlineData |-> Null, text |-> Some("done")]
ImagePart(d) == [inlineData |-> Some([data |-> d]), text |-> Null]
RenderPartLists ==
  { Null, Some(<< TextPart >>),
    Some(<< TextPart, ImagePart("AAAA"), ImagePart("BBBB") >>),
    Some(<< ImagePart("BBBB"), ImagePart("AAAA") >>) }

Thrown(message) == [kind |-> "throw", message |-> message, text |-> EmptyText, parts |-> Null]
TextResponse(t) == [kind |-> "ok", message |-> << >>, text |-> t, parts |-> Null]
PartsResponse(ps) == [kind |-> "ok", message |-> << >>, text |-> EmptyText, parts |-> ps]
EstimateResponses ==
  { Thrown(m) : m \in ServiceFailures } \cup { TextResponse(t) : t \in EstimateTexts }
RenderResponses ==
  { Thrown(m) : m \in ServiceFailures } \cup { PartsResponse(ps) : ps \in RenderPartLists }

\* The outcome of a call: a value, or a thrown Error.
Returned(v) == [threw |-> FALSE, value |-> Some(v), message |-> << >>]
Threw(message) == [threw |-> TRUE, value |-> Null, message |-> message]

RemoveAt(s, i) == SubSeq(s, 1, i - 1) \o SubSeq(s, i + 1, Len(s))

(***************************************************************************)
(* Estimation client (geminiService.ts:11-114).                            *)
(***************************************************************************)
\* geminiService.ts:24-32
BoxesAsPoints(userBoxes) ==
  [i \in DOMAIN userBoxes |->
     LET x1 == userBoxes[i].start[1]
         y1 == userBoxes[i].start[2]
         x2 == userBoxes[i].end[1]
         y2 == userBoxes[i].end[2]
     IN  << <<x1, y1>>, <<x2, y1>>, <<x2, y2>>, <<x1, y2>> >>]

\* The request analyzeMarkedRegions sends (geminiService.ts:34-111).
EstimateRequest(room, wall, rType, rHeight, userBoxes) ==
  [kind |-> "estimate", room |-> room, wall |-> wall, refType |-> rType,
   refHeight |-> rHeight, boxes |-> BoxesAsPoints(userBoxes), regions |-> << >>]

\* JSON.parse(response.text || "{}") (geminiService.ts:113).
JsonParse(text) ==
  IF text = MalformedText THEN Threw(JsonSyntaxError) ELSE Returned(text[2])

\* Mutant of AnalyzeMarkedRegions: a failed call yields an empty payload
\* instead of throwing.
AnalyzeMarkedRegionsSwallowsFailure(resp) ==
  IF resp.kind = "throw" THEN Returned(FullPayload)
  ELSE JsonParse(IF resp.text = EmptyText THEN JsonText(EmptyPayload) ELSE resp.text)

\* What analyzeMarkedRegions does with the service's answer.
AnalyzeMarkedRegions(resp) ==
  IF resp.kind = "throw" THEN Threw(resp.message)
  ELSE JsonParse(IF resp.text = EmptyText THEN JsonText(EmptyPayload) ELSE resp.text)

(***************************************************************************)
(* Visualization client (geminiService.ts:119-162).                        *)
(***************************************************************************)
\* geminiService.ts:125: metadata.regions.map(r => r.points); throws a TypeError
\* when the payload has no regions, before any request is made.
RegionPoints(payload) ==
  IF payload.regions = Null THEN Threw(RegionsTypeError)
  ELSE Returned([i \in DOMAIN payload.regions[1] |-> payload.regions[1][i].points])

RenderRequest(room, wall, points) ==
  [kind |-> "render", room |-> room, wall |-> wall, refType |-> "",
   refHeight |-> 0, boxes |-> << >>, regions |-> points]

\* geminiService.ts:155-159: the loop over the parts, from part i on.
RECURSIVE FirstInlineFrom(_, _)
FirstInlineFrom(parts, i) ==
  IF i > Len(parts) THEN Null
  ELSE IF parts[i].inlineData # Null THEN Some(parts[i].inlineData[1].data)
  ELSE FirstInlineFrom(parts, i + 1)

\* Mutant of GenerateMaskedVisualization: looks at the first part only.
GenerateMaskedVisualizationFirstPartOnly(resp) ==
  IF resp.kind = "throw" THEN Threw(resp.message)
  ELSE LET parts == IF resp.parts = Null THEN << >> ELSE resp.parts[1] IN
       IF Len(parts) > 0 /\ parts[1].inlineData # Null
       THEN Returned(DataUriPrefix \o parts[1].inlineData[1].data)
       ELSE Threw(NoImageError)

\* What generateMaskedVisualization does with the service's answer.
GenerateMaskedVisualization(resp) ==
  IF resp.kind = "throw" THEN Threw(resp.message)
  ELSE LET parts == IF resp.parts = Null THEN << >> ELSE resp.parts[1]
           found == FirstInlineFrom(parts, 1)
       IN  IF found = Null THEN Threw(NoImageError)
           ELSE Returned(DataUriPrefix \o found[1])

(***************************************************************************)
(* What the component renders (App.tsx:178-405).                           *)
(***************************************************************************)
\* Mutant of SetupView: the busy flags are not looked at.
SetupViewIgnoringBusy == keySelected /\ visualizedImage = Null

KeyScreen == ~keySelected                                   \* App.tsx:178
SetupView ==                                                \* App.tsx:224
  keySelected /\ visualizedImage = Null /\ ~isAnalyzing /\ ~isGenerating
ResultsView == keySelected /\ ~SetupView                    \* App.tsx:338
RoomInputMounted == SetupView /\ roomImage = Null           \* App.tsx:231
\* Mutant of DrawingSurfaceMounted: the surface stays up during the calls.
DrawingSurfaceMountedWhileBusy ==
  keySelected /\ visualizedImage = Null /\ roomImage # Null
DrawingSurfaceMounted == SetupView /\ roomImage # Null      \* App.tsx:237
UndoMounted == SetupView /\ roomImage # Null                \* App.tsx:265
WallpaperInputMounted == SetupView /\ wallpaperImage = Null \* App.tsx:286
ClearWallpaperMounted == SetupView /\ wallpaperImage # Null \* App.tsx:292
HeightInputMounted == SetupView /\ refType = DOOR_FRAME     \* App.tsx:317
SynthesizeDisabled ==                                       \* App.tsx:327
  roomImage = Null \/ wallpaperImage = Null \/ Len(completedBoxes) = 0
SynthesizeEnabled == SetupView /\ ~SynthesizeDisabled
\* imgRef.current: the <img> of the drawing surface (App.tsx:245).
ImgRef == IF DrawingSurfaceMounted THEN Some(imgRect) ELSE Null

RefTypes == { A4_PAPER, DOOR_FRAME }
RefHeights == { DefaultRefHeight, 2400 }

(***************************************************************************)
(* Initial state (App.tsx:18-35).                                          *)
(***************************************************************************)
Init ==
  /\ roomImage = Null
  /\ wallpaperImage = Null
  /\ refType = A4_PAPER
  /\ refHeight = DefaultRefHeight
  /\ isDrawing = FALSE
  /\ startPoint = Null
  /\ currentBox = Null
  /\ completedBoxes = << >>
  /\ isAnalyzing = FALSE
  /\ isGenerating = FALSE
  /\ visualizedImage = Null
  /\ metadata = Null
  /\ error = Null
  /\ keySelected = TRUE
  /\ readers = EmptyBag
  /\ procs = << >>
  /\ keyDialogs = 0
  /\ imgRect = ImgRect
  /\ lastOp = "init"

(***************************************************************************)
(* Credential selection (App.tsx:52-61).                                   *)
(***************************************************************************)
\* handleSelectKey up to its await: openSelectKey is called when window.aistudio
\* is defined. window.aistudio belongs to the host page and is read anew at
\* every call (App.tsx:54); aistudio is what that read finds.
HandleSelectKey(aistudio) ==
  keyDialogs' = IF aistudio THEN keyDialogs + 1 ELSE keyDialogs

\* The "Connect AI Studio" button (App.tsx:186).
ClickConnect(aistudio) ==
  /\ KeyScreen
  /\ keyDialogs < MaxKeyDialogs
  /\ HandleSelectKey(aistudio)
  /\ lastOp' = "handleSelectKey"
  /\ UNCHANGED imgRect
  /\ UNCHANGED << roomImage, wallpaperImage, refType, refHeight, isDrawing,
                  startPoint, currentBox, completedBoxes, isAnalyzing,
                  isGenerating, visualizedImage, metadata, error, keySelected,
                  readers, procs >>

\* openSelectKey resolves: setKeySelected(true) (App.tsx:56).
SelectKeyResolved ==
  /\ keyDialogs > 0
  /\ keyDialogs' = keyDialogs - 1
  /\ keySelected' = TRUE
  /\ lastOp' = "openSelectKey.resolved"
  /\ UNCHANGED imgRect
  /\ UNCHANGED << roomImage, wallpaperImage, refType, refHeight, isDrawing,
                  startPoint, currentBox, completedBoxes, isAnalyzing,
                  isGenerating, visualizedImage, metadata, error, readers, procs >>

\* openSelectKey rejects: only logged (App.tsx:58-60).
SelectKeyRejected ==
  /\ keyDialogs > 0
  /\ keyDialogs' = keyDialogs - 1
  /\ lastOp' = "openSelectKey.rejected"
  /\ UNCHANGED imgRect
  /\ UNCHANGED << roomImage, wallpaperImage, refType, refHeight, isDrawing,
                  startPoint, currentBox, completedBoxes, isAnalyzing,
                  isGenerating, visualizedImage, metadata, error, keySelected,
                  readers, procs >>

(***************************************************************************)
(* Uploads (App.tsx:63-78).                                                *)
(***************************************************************************)
\* handleFileUpload(e, setter): choice is e.target.files?.[0].
HandleFileUpload(setter, choice) ==
  /\ IF choice = Null
     THEN UNCHANGED readers
     ELSE /\ BagCardinality(readers) < MaxReaders
          /\ readers' = readers (+) SetToBag({ [setter |-> setter, file |-> choice[1]] })
  /\ lastOp' = "handleFileUpload"
  /\ UNCHANGED imgRect
  /\ UNCHANGED << roomImage, wallpaperImage, refType, refHeight, isDrawing,
                  startPoint, currentBox, completedBoxes, isAnalyzing,
                  isGenerating, visualizedImage, metadata, error, keySelected,
                  procs, keyDialogs >>

ChooseRoomFile(choice) == RoomInputMounted /\ HandleFileUpload("setRoomImage", choice)
ChooseWallpaperFile(choice) ==
  WallpaperInputMounted /\ HandleFileUpload("setWallpaperImage", choice)

\* Mutant of ReaderLoadEnd: a new room image keeps the boxes and the result.
ReaderLoadEndKeepsDerived(r, ok) ==
  LET result == ReadAsDataURL(r.file, ok) IN
  /\ BagIn(r, readers)
  /\ readers' = readers (-) SetToBag({ r })
  /\ lastOp' = IF result = Null THEN "reader.onloadend.threw" ELSE "reader.onloadend"
  /\ UNCHANGED imgRect
  /\ IF result = Null
     THEN UNCHANGED << roomImage, wallpaperImage, completedBoxes,
                       visualizedImage, metadata, error >>
     ELSE LET img == [data |-> result[1][2], mimeType |-> r.file.type] IN
          IF r.setter = "setRoomImage"
          THEN /\ roomImage' = Some(img)
               /\ visualizedImage' = Null
               /\ error' = Null
               /\ UNCHANGED << wallpaperImage, completedBoxes, metadata >>
          ELSE /\ wallpaperImage' = Some(img)
               /\ UNCHANGED << roomImage, completedBoxes, visualizedImage,
                               metadata, error >>
  /\ UNCHANGED << refType, refHeight, isDrawing, startPoint, currentBox,
                  isAnalyzing, isGenerating, keySelected, procs,
                  keyDialogs >>

\* reader.onloadend of a pending reader r; ok is whether the read succeeded (on
\* a failed read reader.result is null and the callback throws at App.tsx:68).
ReaderLoadEnd(r, ok) ==
  LET result == ReadAsDataURL(r.file, ok) IN
  /\ BagIn(r, readers)
  /\ readers' = readers (-) SetToBag({ r })
  /\ lastOp' = IF result = Null THEN "reader.onloadend.threw" ELSE "reader.onloadend"
  /\ UNCHANGED imgRect
  /\ IF result = Null
     THEN UNCHANGED << roomImage, wallpaperImage, completedBoxes,
                       visualizedImage, metadata, error >>
     ELSE LET img == [data |-> result[1][2], mimeType |-> r.file.type] IN
          IF r.setter = "setRoomImage"
          THEN /\ roomImage' = Some(img)
               /\ completedBoxes' = << >>
               /\ visualizedImage' = Null
               /\ metadata' = Null
               /\ error' = Null
               /\ UNCHANGED wallpaperImage
          ELSE /\ wallpaperImage' = Some(img)
               /\ UNCHANGED << roomImage, completedBoxes, visualizedImage,
                               metadata, error >>
  /\ UNCHANGED << refType, refHeight, isDrawing, startPoint, currentBox,
                  isAnalyzing, isGenerating, keySelected, procs,
                  keyDialogs >>

\* The button over the wallpaper preview (App.tsx:295).
ClearWallpaper ==
  /\ ClearWallpaperMounted
  /\ wallpaperImage' = Null
  /\ lastOp' = "clearWallpaper"
  /\ UNCHANGED imgRect
  /\ UNCHANGED << roomImage, refType, refHeight, isDrawing, startPoint,
                  currentBox, completedBoxes, isAnalyzing, isGenerating,
                  visualizedImage, metadata, error, keySelected, readers, procs, keyDialogs >>

(***************************************************************************)
(* Geometry editor (App.tsx:96-135).                                       *)
(***************************************************************************)
HandleMouseDown(e) ==
  LET coords == GetNormalizedCoords(e, ImgRef) IN
  /\ IF coords # Null
     THEN /\ isDrawing' = TRUE
          /\ startPoint' = coords
          /\ currentBox' = Some(Box(coords[1], coords[1]))
     ELSE UNCHANGED << isDrawing, startPoint, currentBox >>
  /\ lastOp' = "handleMouseDown"
  /\ UNCHANGED imgRect
  /\ UNCHANGED << roomImage, wallpaperImage, refType, refHeight,
                  completedBoxes, isAnalyzing, isGenerating, visualizedImage,
                  metadata, error, keySelected, readers, procs,
                  keyDialogs >>

\* Mutant of HandleMouseMove: the box in progress is moved to the new point.
HandleMouseMoveMovesStart(e) ==
  LET coords == GetNormalizedCoords(e, ImgRef) IN
  /\ IF coords # Null /\ isDrawing /\ startPoint # Null
     THEN currentBox' = Some(Box(coords[1], coords[1]))
     ELSE UNCHANGED currentBox
  /\ lastOp' = "handleMouseMove"
  /\ UNCHANGED imgRect
  /\ UNCHANGED << roomImage, wallpaperImage, refType, refHeight, isDrawing,
                  startPoint, completedBoxes, isAnalyzing, isGenerating,
                  visualizedImage, metadata, error, keySelected, readers, procs, keyDialogs >>

HandleMouseMove(e) ==
  LET coords == GetNormalizedCoords(e, ImgRef) IN
  /\ IF coords # Null /\ isDrawing /\ startPoint # Null
     THEN currentBox' = Some(Box(startPoint[1], coords[1]))
     ELSE UNCHANGED currentBox
  /\ lastOp' = "handleMouseMove"
  /\ UNCHANGED imgRect
  /\ UNCHANGED << roomImage, wallpaperImage, refType, refHeight, isDrawing,
                  startPoint, completedBoxes, isAnalyzing, isGenerating,
                  visualizedImage, metadata, error, keySelected, readers, procs, keyDialogs >>

\* The coordinates a for which the doubles the code holds for a and a + 5
\* tenths, ((k / 1000) * 100 for k = a and k = a + 5, App.tsx:91-92), differ by
\* more than 0.5 (by 0.5000000000000002 for a = 9: 0.8999999999999999 and
\* 1.4000000000000001). For every other a they differ by 0.5 or less.
RoundedAboveThreshold ==
  {
    9, 11, 12, 22, 23, 24, 30, 36, 37, 44, 51, 53, 59,
    61, 63, 65, 72, 74, 77, 78, 88, 92, 96, 103, 107, 111,
    118, 119, 126, 127, 134, 135, 141, 145, 149, 153, 156, 159, 173,
    181, 189, 197, 211, 219, 227, 238, 241, 254, 257, 270, 273, 282,
    290, 298, 306, 314, 317, 318, 334, 351, 362, 383, 394, 411, 427,
    443, 459, 476, 487, 508, 519, 540, 551, 569, 580, 601, 612, 633,
    639, 641, 668, 702, 729, 766, 793, 827, 854, 891, 918, 952, 979 }

\* Math.abs(a - b) > 0.5 on the doubles held for a and b (App.tsx:118-121). A
\* difference with NaN is NaN, and NaN > 0.5 is false.
ExceedsThreshold(a, b) ==
  IF a = NaN \/ b = NaN THEN FALSE
  ELSE LET d == Abs(a - b) IN
       \/ d > ThresholdTenths
       \/ d = ThresholdTenths /\ Min(a, b) \in RoundedAboveThreshold

\* Mutant of PassesThreshold: the height test is >= instead of >.
PassesThresholdInclusive(box) ==
  /\ ExceedsThreshold(box.end[1], box.start[1])
  /\ box.end[2] # NaN /\ box.start[2] # NaN
  /\ Abs(box.end[2] - box.start[2]) >= ThresholdTenths

\* App.tsx:118-121
PassesThreshold(box) ==
  LET widthOverThreshold == ExceedsThreshold(box.end[1], box.start[1])
      heightOverThreshold == ExceedsThreshold(box.end[2], box.start[2])
  IN  widthOverThreshold /\ heightOverThreshold

\* Mutant of HandleMouseUp: a box under the threshold stays in progress.
HandleMouseUpKeepsRejected ==
  /\ IF isDrawing /\ currentBox # Null /\ PassesThreshold(currentBox[1])
     THEN /\ Len(completedBoxes) < MaxBoxes
          /\ completedBoxes' = Append(completedBoxes, currentBox[1])
          /\ isDrawing' = FALSE
          /\ startPoint' = Null
          /\ currentBox' = Null
     ELSE UNCHANGED << completedBoxes, isDrawing, startPoint, currentBox >>
  /\ lastOp' = "handleMouseUp"
  /\ UNCHANGED imgRect
  /\ UNCHANGED << roomImage, wallpaperImage, refType, refHeight, isAnalyzing,
                  isGenerating, visualizedImage, metadata, error, keySelected,
                  readers, procs, keyDialogs >>

\* onMouseUp and onMouseLeave (App.tsx:242-243).
HandleMouseUp ==
  /\ IF isDrawing /\ currentBox # Null /\ PassesThreshold(currentBox[1])
     THEN /\ Len(completedBoxes) < MaxBoxes
          /\ completedBoxes' = Append(completedBoxes, currentBox[1])
     ELSE UNCHANGED completedBoxes
  /\ isDrawing' = FALSE
  /\ startPoint' = Null
  /\ currentBox' = Null
  /\ lastOp' = "handleMouseUp"
  /\ UNCHANGED imgRect
  /\ UNCHANGED << roomImage, wallpaperImage, refType, refHeight, isAnalyzing,
                  isGenerating, visualizedImage, metadata, error, keySelected,
                  readers, procs, keyDialogs >>

\* Mutant of UndoLastBox: slice(1) instead of slice(0, -1).
UndoLastBoxDropsFirst ==
  /\ IF Len(completedBoxes) > 0
     THEN completedBoxes' = SubSeq(completedBoxes, 2, Len(completedBoxes))
     ELSE UNCHANGED completedBoxes
  /\ lastOp' = "undoLastBox"
  /\ UNCHANGED imgRect
  /\ UNCHANGED << roomImage, wallpaperImage, refType, refHeight, isDrawing,
                  startPoint, currentBox, isAnalyzing, isGenerating,
                  visualizedImage, metadata, error, keySelected, readers,
                  procs, keyDialogs >>

UndoLastBox ==
  /\ IF Len(completedBoxes) > 0
     THEN completedBoxes' = SubSeq(completedBoxes, 1, Len(completedBoxes) - 1)
     ELSE UNCHANGED completedBoxes
  /\ lastOp' = "undoLastBox"
  /\ UNCHANGED imgRect
  /\ UNCHANGED << roomImage, wallpaperImage, refType, refHeight, isDrawing,
                  startPoint, currentBox, isAnalyzing, isGenerating,
                  visualizedImage, metadata, error, keySelected, readers, procs, keyDialogs >>

MouseDown(e) == DrawingSurfaceMounted /\ HandleMouseDown(e)
MouseMove(e) == DrawingSurfaceMounted /\ HandleMouseMove(e)
MouseUp == DrawingSurfaceMounted /\ HandleMouseUp
ClickUndo == UndoMounted /\ UndoLastBox

(***************************************************************************)
(* Calibration selector (App.tsx:307-321).                                 *)
(***************************************************************************)
\* onChange of the <select>: fires when the selection changes.
SelectRefType(t) ==
  /\ SetupView
  /\ t # refType
  /\ refType' = t
  /\ lastOp' = "setRefType"
  /\ UNCHANGED imgRect
  /\ UNCHANGED << roomImage, wallpaperImage, refHeight, isDrawing, startPoint,
                  currentBox, completedBoxes, isAnalyzing, isGenerating,
                  visualizedImage, metadata, error, keySelected, readers, procs, keyDialogs >>

\* onChange of the number input: fires when its value changes.
EnterRefHeight(h) ==
  /\ HeightInputMounted
  /\ h # refHeight
  /\ refHeight' = h
  /\ lastOp' = "setRefHeight"
  /\ UNCHANGED imgRect
  /\ UNCHANGED << roomImage, wallpaperImage, refType, isDrawing, startPoint,
                  currentBox, completedBoxes, isAnalyzing, isGenerating,
                  visualizedImage, metadata, error, keySelected, readers, procs, keyDialogs >>

(***************************************************************************)
(* Session controller (App.tsx:137-176).                                   *)
(***************************************************************************)
\* Mutant of ActualHeight: the custom height whatever the reference type.
ActualHeightIgnoresRefType == refHeight

\* App.tsx:146
ActualHeight == IF refType = A4_PAPER THEN A4HeightCm ELSE refHeight

\* Mutant of StartProcess: the precondition does not look at the boxes.
StartProcessNoBoxCheck ==
  /\ IF roomImage = Null \/ wallpaperImage = Null
     THEN /\ error' = Some(ValidationMsg)
          /\ UNCHANGED << isAnalyzing, procs >>
     ELSE /\ Len(procs) < MaxProcs
          /\ error' = Null
          /\ isAnalyzing' = TRUE
          /\ procs' = Append(procs,
               [pc |-> "estimate", room |-> roomImage[1], wall |-> wallpaperImage[1],
                req |-> EstimateRequest(roomImage[1], wallpaperImage[1], refType,
                                        ActualHeight, completedBoxes),
                resp |-> Null])
  /\ lastOp' = "startProcess"
  /\ UNCHANGED imgRect
  /\ UNCHANGED << roomImage, wallpaperImage, refType, refHeight, isDrawing,
                  startPoint, currentBox, completedBoxes, isGenerating,
                  visualizedImage, metadata, keySelected, readers, keyDialogs >>

\* Mutant of StartProcess: an accepted attempt leaves the error slot as it is.
StartProcessKeepsError ==
  /\ IF roomImage = Null \/ wallpaperImage = Null \/ Len(completedBoxes) = 0
     THEN /\ error' = Some(ValidationMsg)
          /\ UNCHANGED << isAnalyzing, procs >>
     ELSE /\ Len(procs) < MaxProcs
          /\ UNCHANGED error
          /\ isAnalyzing' = TRUE
          /\ procs' = Append(procs,
               [pc |-> "estimate", room |-> roomImage[1], wall |-> wallpaperImage[1],
                req |-> EstimateRequest(roomImage[1], wallpaperImage[1], refType,
                                        ActualHeight, completedBoxes),
                resp |-> Null])
  /\ lastOp' = "startProcess"
  /\ UNCHANGED imgRect
  /\ UNCHANGED << roomImage, wallpaperImage, refType, refHeight, isDrawing,
                  startPoint, currentBox, completedBoxes, isGenerating,
                  visualizedImage, metadata, keySelected, readers,
                  keyDialogs >>

\* startProcess up to its first await (App.tsx:137-147). The invocation keeps
\* the roomImage and wallpaperImage of the render it was created in.
StartProcess ==
  /\ IF roomImage = Null \/ wallpaperImage = Null \/ Len(completedBoxes) = 0
     THEN /\ error' = Some(ValidationMsg)
          /\ UNCHANGED << isAnalyzing, procs >>
     ELSE /\ Len(procs) < MaxProcs
          /\ error' = Null
          /\ isAnalyzing' = TRUE
          /\ procs' = Append(procs,
               [pc |-> "estimate", room |-> roomImage[1], wall |-> wallpaperImage[1],
                req |-> EstimateRequest(roomImage[1], wallpaperImage[1], refType,
                                        ActualHeight, completedBoxes),
                resp |-> Null])
  /\ lastOp' = "startProcess"
  /\ UNCHANGED imgRect
  /\ UNCHANGED << roomImage, wallpaperImage, refType, refHeight, isDrawing,
                  startPoint, currentBox, completedBoxes, isGenerating,
                  visualizedImage, metadata, keySelected, readers,
                  keyDialogs >>

\* The Synthesize button (App.tsx:326-332).
ClickSynthesize == SynthesizeEnabled /\ StartProcess
\* startProcess run from the setup view whatever the button's disabled attribute.
InvokeStartProcess == SetupView /\ StartProcess

\* Invocation p made its render request (it keeps its estimate request when
\* generateMaskedVisualization threw before making one).
RenderIssued(p) == p.req.kind = "render"

\* An invocation awaits a promise that was rejected when it was made: its
\* continuation is in the microtask queue, so no task (event handler, reader
\* callback, network answer) runs before it.
MicrotaskPending ==
  \E i \in DOMAIN procs : procs[i].pc = "render" /\ ~RenderIssued(procs[i])

\* The service answers the outstanding request of invocation i.
ServiceSettles(i, resp) ==
  /\ procs[i].resp = Null
  /\ resp \in (IF procs[i].pc = "estimate" THEN EstimateResponses ELSE RenderResponses)
  /\ procs' = [procs EXCEPT ![i].resp = Some(resp)]
  /\ lastOp' = "service"
  /\ UNCHANGED imgRect
  /\ UNCHANGED << roomImage, wallpaperImage, refType, refHeight, isDrawing,
                  startPoint, currentBox, completedBoxes, isAnalyzing,
                  isGenerating, visualizedImage, metadata, error, keySelected,
                  readers, keyDialogs >>

\* Mutant of CatchFinally: no finally block, so a failure leaves the flags set.
CatchWithoutFinally(i, message, aistudio) ==
  /\ IF Includes(message, AuthSignature)
     THEN /\ keySelected' = FALSE
          /\ HandleSelectKey(aistudio)
          /\ UNCHANGED error
     ELSE /\ error' = Some(SynthesisFailedMsg)
          /\ UNCHANGED << keySelected, keyDialogs >>
  /\ UNCHANGED << isAnalyzing, isGenerating >>
  /\ procs' = RemoveAt(procs, i)

\* catch and finally of invocation i, for a thrown Error with this message
\* (App.tsx:153-163).
CatchFinally(i, message, aistudio) ==
  /\ IF Includes(message, AuthSignature)
     THEN /\ keySelected' = FALSE
          /\ HandleSelectKey(aistudio)
          /\ UNCHANGED error
     ELSE /\ error' = Some(SynthesisFailedMsg)
          /\ UNCHANGED << keySelected, keyDialogs >>
  /\ isAnalyzing' = FALSE
  /\ isGenerating' = FALSE
  /\ procs' = RemoveAt(procs, i)

\* Mutant of AfterEstimate: the analyzing flag stays set during the render call.
AfterEstimateKeepsAnalyzing(i, aistudio) ==
  LET p == procs[i]
      analysis == AnalyzeMarkedRegions(p.resp[1])
  IN
  /\ p.pc = "estimate"
  /\ p.resp # Null
  /\ lastOp' = "afterEstimate"
  /\ UNCHANGED imgRect
  /\ IF analysis.threw
     THEN /\ CatchFinally(i, analysis.message, aistudio)
          /\ UNCHANGED metadata
     ELSE LET analysisData == analysis.value[1]
              points == RegionPoints(analysisData)
          IN  /\ metadata' = Some(analysisData)
              /\ UNCHANGED isAnalyzing
              /\ isGenerating' = TRUE
              /\ procs' = [procs EXCEPT ![i] =
                   IF points.threw
                   THEN [p EXCEPT !.pc = "render",
                                  !.resp = Some(Thrown(points.message))]
                   ELSE [pc |-> "render", room |-> p.room, wall |-> p.wall,
                         req |-> RenderRequest(p.room, p.wall, points.value[1]),
                         resp |-> Null]]
              /\ UNCHANGED << error, keySelected, keyDialogs >>
  /\ UNCHANGED << roomImage, wallpaperImage, refType, refHeight, isDrawing,
                  startPoint, currentBox, completedBoxes, visualizedImage,
                  readers >>

\* startProcess resumes after analyzeMarkedRegions settled (App.tsx:147-151)
\* and runs to its next await.  generateMaskedVisualization is an async
\* function: when regions.map throws (geminiService.ts:125) it makes no
\* request and returns a rejected promise, so the invocation is suspended at
\* the await with the flags of a render under way, and its catch block runs in
\* a later microtask (AfterRender).
AfterEstimate(i, aistudio) ==
  LET p == procs[i]
      analysis == AnalyzeMarkedRegions(p.resp[1])
  IN
  /\ p.pc = "estimate"
  /\ p.resp # Null
  /\ lastOp' = "afterEstimate"
  /\ UNCHANGED imgRect
  /\ IF analysis.threw
     THEN /\ CatchFinally(i, analysis.message, aistudio)
          /\ UNCHANGED metadata
     ELSE LET analysisData == analysis.value[1]
              points == RegionPoints(analysisData)
          IN  /\ metadata' = Some(analysisData)
              /\ isAnalyzing' = FALSE
              /\ isGenerating' = TRUE
              /\ procs' = [procs EXCEPT ![i] =
                   IF points.threw
                   THEN [p EXCEPT !.pc = "render",
                                  !.resp = Some(Thrown(points.message))]
                   ELSE [pc |-> "render", room |-> p.room, wall |-> p.wall,
                         req |-> RenderRequest(p.room, p.wall, points.value[1]),
                         resp |-> Null]]
              /\ UNCHANGED << error, keySelected, keyDialogs >>
  /\ UNCHANGED << roomImage, wallpaperImage, refType, refHeight, isDrawing,
                  startPoint, currentBox, completedBoxes, visualizedImage,
                  readers >>

\* The settlement of the promise awaited at App.tsx:151: what
\* generateMaskedVisualization makes of the service's answer, or the TypeError
\* it threw before making a request.
RenderOutcome(p) ==
  IF RenderIssued(p) THEN GenerateMaskedVisualization(p.resp[1])
  ELSE Threw(p.resp[1].message)

\* Mutant of AfterRender: a success leaves the generating flag set.
AfterRenderLeavesGenerating(i, aistudio) ==
  LET p == procs[i]
      image == RenderOutcome(p)
  IN
  /\ p.pc = "render"
  /\ p.resp # Null
  /\ lastOp' = "afterRender"
  /\ UNCHANGED imgRect
  /\ IF image.threw
     THEN /\ CatchFinally(i, image.message, aistudio)
          /\ UNCHANGED visualizedImage
     ELSE /\ visualizedImage' = image.value
          /\ procs' = RemoveAt(procs, i)
          /\ UNCHANGED << error, keySelected, keyDialogs, isAnalyzing, isGenerating >>
  /\ UNCHANGED << roomImage, wallpaperImage, refType, refHeight, isDrawing,
                  startPoint, currentBox, completedBoxes, metadata, readers >>

\* startProcess resumes after generateMaskedVisualization settled
\* (App.tsx:151-163).
AfterRender(i, aistudio) ==
  LET p == procs[i]
      image == RenderOutcome(p)
  IN
  /\ p.pc = "render"
  /\ p.resp # Null
  /\ lastOp' = "afterRender"
  /\ UNCHANGED imgRect
  /\ IF image.threw
     THEN /\ CatchFinally(i, image.message, aistudio)
          /\ UNCHANGED visualizedImage
     ELSE /\ visualizedImage' = image.value
          /\ isAnalyzing' = FALSE
          /\ isGenerating' = FALSE
          /\ procs' = RemoveAt(procs, i)
          /\ UNCHANGED << error, keySelected, keyDialogs >>
  /\ UNCHANGED << roomImage, wallpaperImage, refType, refHeight, isDrawing,
                  startPoint, currentBox, completedBoxes, metadata, readers >>

\* reset (App.tsx:166-176).
Reset ==
  /\ roomImage' = Null
  /\ wallpaperImage' = Null
  /\ visualizedImage' = Null
  /\ metadata' = Null
  /\ error' = Null
  /\ completedBoxes' = << >>
  /\ isDrawing' = FALSE
  /\ startPoint' = Null
  /\ currentBox' = Null
  /\ lastOp' = "reset"
  /\ UNCHANGED imgRect
  /\ UNCHANGED << refType, refHeight, isAnalyzing, isGenerating, keySelected,
                  readers, procs, keyDialogs >>

\* The brand header (App.tsx:219) and "New Simulation" (App.tsx:357).
ClickReset == keySelected /\ Reset

(***************************************************************************)
(* Specifications.                                                         *)
(***************************************************************************)
\* The tasks of the event loop but the one that triggers startProcess: event
\* handlers, reader callbacks, answers of the service. A task starts only when
\* no continuation of startProcess is in the microtask queue.
Tasks ==
  \/ ~MicrotaskPending /\ \E a \in BOOLEAN : ClickConnect(a)
  \/ ~MicrotaskPending /\ \E c \in FileChoices : ChooseRoomFile(c)
  \/ ~MicrotaskPending /\ \E c \in FileChoices : ChooseWallpaperFile(c)
  \/ ~MicrotaskPending /\ \E r \in BagToSet(readers), ok \in BOOLEAN : ReaderLoadEnd(r, ok)
  \/ ~MicrotaskPending /\ ClearWallpaper
  \/ ~MicrotaskPending /\ \E e \in MouseEvents : MouseDown(e)
  \/ ~MicrotaskPending /\ \E e \in MouseEvents : MouseMove(e)
  \/ ~MicrotaskPending /\ MouseUp
  \/ ~MicrotaskPending /\ ClickUndo
  \/ ~MicrotaskPending /\ \E t \in RefTypes : SelectRefType(t)
  \/ ~MicrotaskPending /\ \E h \in RefHeights : EnterRefHeight(h)
  \/ ~MicrotaskPending /\ \E i \in DOMAIN procs, r \in EstimateResponses \cup RenderResponses :
         ServiceSettles(i, r)
  \/ ~MicrotaskPending /\ ClickReset

\* The promise jobs: the continuations of startProcess and of handleSelectKey
\* (App.tsx:55-60). They run when the awaited promise has settled, also between
\* another invocation's continuation and its catch block.
Continuations ==
  \/ SelectKeyResolved
  \/ SelectKeyRejected
  \/ \E i \in DOMAIN procs, a \in BOOLEAN : AfterEstimate(i, a)
  \/ \E i \in DOMAIN procs, a \in BOOLEAN : AfterRender(i, a)

\* Everything but the way startProcess is triggered.
Environment == Tasks \/ Continuations

\* The application as rendered: every handler runs only from a mounted,
\* enabled control.
Next == Environment \/ (~MicrotaskPending /\ ClickSynthesize)
Spec == Init /\ [][Next]_vars

\* The same, with startProcess run from the setup view even when its button is
\* disabled, so that its own precondition check (App.tsx:138-141) is reached.
NextInvoke == Environment \/ (~MicrotaskPending /\ InvokeStartProcess)
SpecInvoke == Init /\ [][NextInvoke]_vars

\* The application as rendered, where every outstanding service call settles
\* (the promise of generateContent resolves or rejects) and every settled
\* await resumes its invocation.
Fairness ==
  /\ WF_vars(\E i \in DOMAIN procs, r \in EstimateResponses \cup RenderResponses :
               ServiceSettles(i, r))
  /\ WF_vars(\E i \in DOMAIN procs, a \in BOOLEAN : AfterEstimate(i, a))
  /\ WF_vars(\E i \in DOMAIN procs, a \in BOOLEAN : AfterRender(i, a))
SpecLive == Init /\ [][Next]_vars /\ Fairness

\* The coordinate mapping under several page layouts: the image is uploaded
\* and laid out with one of the rectangles, and the mouse is pressed and moved
\* over the drawing surface.
InitCoords ==
  /\ roomImage = Null
  /\ wallpaperImage = Null
  /\ refType = A4_PAPER
  /\ refHeight = DefaultRefHeight
  /\ isDrawing = FALSE
  /\ startPoint = Null
  /\ currentBox = Null
  /\ completedBoxes = << >>
  /\ isAnalyzing = FALSE
  /\ isGenerating = FALSE
  /\ visualizedImage = Null
  /\ metadata = Null
  /\ error = Null
  /\ keySelected = TRUE
  /\ readers = EmptyBag
  /\ procs = << >>
  /\ keyDialogs = 0
  /\ imgRect \in ImgRects
  /\ lastOp = "init"

NextCoords ==
  \/ \E c \in FileChoices : ChooseRoomFile(c)
  \/ \E r \in BagToSet(readers), ok \in BOOLEAN : ReaderLoadEnd(r, ok)
  \/ \E e \in SurfaceEvents : OnSurface(e, imgRect) /\ MouseDown(e)
  \/ \E e \in SurfaceEvents : OnSurface(e, imgRect) /\ MouseMove(e)
SpecCoords == InitCoords /\ [][NextCoords]_vars

TypeOK ==
  /\ keyDialogs \in 0..MaxKeyDialogs
  /\ Len(procs) <= MaxProcs
  /\ BagCardinality(readers) <= MaxReaders
  /\ Len(completedBoxes) <= MaxBoxes

(***************************************************************************)
(* Session states of the specification's state machine, read off the       *)
(* component state.                                                        *)
(***************************************************************************)
Busy == isAnalyzing \/ isGenerating
Analyzing == isAnalyzing /\ ~isGenerating
Generating == isGenerating /\ ~isAnalyzing
Done == ~Busy /\ visualizedImage # Null
\* Idle, with or without a message in the error slot.
Idle == ~Busy /\ visualizedImage = Null
InError == Idle /\ error = Some(SynthesisFailedMsg)

\* The step is startProcess passing its precondition check.
Accepted == lastOp' = "startProcess" /\ procs' # procs
\* The step resumes the only suspended invocation after its estimate call.
ResumesEstimate == lastOp' = "afterEstimate" /\ Len(procs) = 1
\* The step resumes the only suspended invocation after its render call.
ResumesRender == lastOp' = "afterRender" /\ Len(procs) = 1
\* What the resumed invocation awaited: the answer of the service, or the
\* TypeError generateMaskedVisualization threw before making its request.
Answer == procs[1].resp[1]
\* The parts of a render answer.
PartsOf(resp) == IF resp.parts = Null THEN << >> ELSE resp.parts[1]
HasInline(parts) == \E k \in DOMAIN parts : parts[k].inlineData # Null
\* The estimate call returned a payload (the service answered with JSON text).
EstimateSucceeded(resp) == resp.kind = "ok" /\ resp.text # MalformedText
\* The payload the estimate call returned.
PayloadOf(resp) == IF resp.text = EmptyText THEN EmptyPayload ELSE resp.text[2]
RenderSucceeded(resp) == resp.kind = "ok" /\ HasInline(PartsOf(resp))
IsAuthFailure(resp) ==
  resp.kind = "throw" /\ \E k \in DOMAIN resp.message : resp.message[k] = AuthSignature
RenderCalls(ps) == { i \in DOMAIN ps : ps[i].pc = "render" /\ RenderIssued(ps[i]) }
EstimateInFlight == \E i \in DOMAIN procs : procs[i].pc = "estimate" /\ procs[i].resp = Null
RenderInFlight == \E i \in DOMAIN procs : procs[i].pc = "render" /\ procs[i].resp = Null

(***************************************************************************)
(* C1. A synthesize attempt whose estimate and render calls both succeed   *)
(* goes Idle, Analyzing, Generating, Done, and in Done the preview and the *)
(* EstimationResult are both non-null.                                     *)
(***************************************************************************)
C1_SuccessPath ==
  [][ /\ Accepted => (Idle /\ Analyzing')
      /\ (ResumesEstimate /\ EstimateSucceeded(Answer)
            /\ PayloadOf(Answer).regions # Null) => (Analyzing /\ Generating')
      /\ (ResumesRender /\ RenderSucceeded(Answer)) =>
           (Generating /\ Done' /\ visualizedImage' # Null /\ metadata' # Null)
    ]_vars

(***************************************************************************)
(* C2. startProcess with the room image, the wallpaper image or the boxes  *)
(* missing puts the validation message in the error slot, leaves both busy *)
(* flags clear, leaves result and preview as they were and issues no call. *)
(***************************************************************************)
C2_ValidationGate ==
  [][ (lastOp' = "startProcess" /\ SynthesizeDisabled) =>
        /\ error' = Some(ValidationMsg)
        /\ Idle /\ Idle'
        /\ metadata' = metadata
        /\ visualizedImage' = visualizedImage
        /\ procs' = procs
    ]_vars

C2_Witness ==
  /\ lastOp = "startProcess"
  /\ error = Some(ValidationMsg)
  /\ roomImage # Null
  /\ wallpaperImage # Null
  /\ completedBoxes = << >>
  /\ procs = << >>

(***************************************************************************)
(* C3. After a full reset, in whatever state it was invoked, the session   *)
(* is Idle and equal to the initial state: no images, no boxes, no box in  *)
(* progress, no result, no preview, no error, neither busy flag set.       *)
(***************************************************************************)
C3_ResetRestoresInitial ==
  lastOp = "reset" =>
    /\ roomImage = Null
    /\ wallpaperImage = Null
    /\ completedBoxes = << >>
    /\ ~isDrawing /\ startPoint = Null /\ currentBox = Null
    /\ metadata = Null
    /\ visualizedImage = Null
    /\ error = Null
    /\ ~isAnalyzing /\ ~isGenerating

(***************************************************************************)
(* C4. The estimate call and the render call are never outstanding         *)
(* together; a render call is issued only by the step that resumes the     *)
(* same invocation after a successful estimate; a failed estimate ends the *)
(* invocation without a render call.                                       *)
(***************************************************************************)
C4_CallsSequential ==
  [][ /\ ~(EstimateInFlight' /\ RenderInFlight')
      /\ RenderCalls(procs') \ RenderCalls(procs) # {} =>
           /\ ResumesEstimate
           /\ EstimateSucceeded(Answer)
           /\ procs'[1].pc = "render" /\ procs'[1].resp = Null
           /\ procs'[1].room = procs[1].room /\ procs'[1].wall = procs[1].wall
      /\ (ResumesEstimate /\ ~EstimateSucceeded(Answer)) => procs' = << >>
    ]_vars

C4_Witness ==
  /\ lastOp = "afterEstimate"
  /\ Len(procs) = 1
  /\ procs[1].pc = "render"
  /\ RenderInFlight

(***************************************************************************)
(* C5. A synthesize request is accepted only when no invocation of an      *)
(* earlier attempt is still suspended at its estimate or render call.      *)
(***************************************************************************)
C5_OneAttemptInFlight ==
  [][ Accepted => (procs = << >> /\ Len(procs') = 1) ]_vars

\* A second attempt was accepted after the first one had ended.
C5_Witness ==
  /\ lastOp = "startProcess"
  /\ Len(procs) = 1
  /\ metadata # Null

(***************************************************************************)
(* C6. A failure of the estimate or of the render call that does not carry *)
(* the authentication signature leaves the session in Error: the generic   *)
(* message in the error slot, both busy flags clear, no preview, and no    *)
(* call left outstanding (nothing is retried).                             *)
(***************************************************************************)
C6_FailureCaught ==
  [][ ( /\ ResumesEstimate \/ ResumesRender
        /\ ~IsAuthFailure(Answer)
        /\ \/ Answer.kind = "throw"
           \/ ResumesEstimate /\ ~EstimateSucceeded(Answer)
           \/ ResumesRender /\ ~RenderSucceeded(Answer) ) =>
        /\ Busy
        /\ InError'
        /\ error' = Some(SynthesisFailedMsg)
        /\ ~isAnalyzing' /\ ~isGenerating'
        /\ visualizedImage' = Null
        /\ procs' = << >>
    ]_vars

C6_Witness ==
  /\ lastOp = "afterRender"
  /\ InError
  /\ procs = << >>
  /\ keySelected

(***************************************************************************)
(* C7. An analysis answer that omits a required field, the empty answer    *)
(* included, is rejected: it is not stored as the EstimationResult, no     *)
(* render call follows and the session goes from Analyzing to Error.       *)
(***************************************************************************)
C7_RejectsIncompletePayload ==
  [][ ( /\ ResumesEstimate
        /\ EstimateSucceeded(Answer)
        /\ \E f \in RequiredFields : PayloadOf(Answer)[f] = Null ) =>
        /\ metadata' = metadata
        /\ InError'
        /\ procs' = << >>
    ]_vars

(***************************************************************************)
(* C8. render yields the data URI of the first inline image part of the    *)
(* answer, in answer order; with no inline image part it fails, and then   *)
(* the session goes from Generating to Error and the preview stays null.   *)
(***************************************************************************)
C8_FirstInlineImage ==
  [][ (ResumesRender /\ Answer.kind = "ok") =>
        LET parts == PartsOf(Answer) IN
        IF HasInline(parts)
        THEN LET first == CHOOSE k \in DOMAIN parts :
                            /\ parts[k].inlineData # Null
                            /\ \A j \in 1..(k - 1) : parts[j].inlineData = Null
             IN  visualizedImage' = Some(DataUriPrefix \o parts[first].inlineData[1].data)
        ELSE /\ Generating
             /\ InError'
             /\ visualizedImage = Null /\ visualizedImage' = Null
    ]_vars

\* The preview is the image that came second in the answer, after a text
\* part and before another image.
C8_Witness ==
  /\ lastOp = "afterRender"
  /\ visualizedImage = Some(DataUriPrefix \o "AAAA")

(***************************************************************************)
(* C9. Every committed box is wider than 0.5 and higher than 0.5, on the    *)
(* values the code holds for its coordinates; a press and release at one   *)
(* point commits nothing.                                                  *)
(***************************************************************************)
C9_CommittedBoxesPassThreshold ==
  \A k \in DOMAIN completedBoxes :
    /\ ExceedsThreshold(completedBoxes[k].end[1], completedBoxes[k].start[1])
    /\ ExceedsThreshold(completedBoxes[k].end[2], completedBoxes[k].start[2])

\* Two boxes were committed whose corners are five tenths apart in x: the
\* doubles held for them differ by more than 0.5.
C9_Witness ==
  /\ lastOp = "handleMouseUp"
  /\ Len(completedBoxes) = 2
  /\ completedBoxes[1] # completedBoxes[2]
  /\ Abs(completedBoxes[1].end[1] - completedBoxes[1].start[1]) = ThresholdTenths

(***************************************************************************)
(* C10. undoLast removes the last committed box and nothing else, keeping  *)
(* the earlier boxes in order; on an empty list it changes nothing and     *)
(* sets no error.                                                          *)
(***************************************************************************)
C10_UndoRemovesLast ==
  [][ lastOp' = "undoLastBox" =>
        /\ error' = error
        /\ IF Len(completedBoxes) = 0
           THEN completedBoxes' = << >>
           ELSE /\ Len(completedBoxes') = Len(completedBoxes) - 1
                /\ \A k \in DOMAIN completedBoxes' :
                     completedBoxes'[k] = completedBoxes[k]
    ]_vars

\* An undo on a list of two boxes has left one.
C10_Witness ==
  /\ lastOp = "undoLastBox"
  /\ Len(completedBoxes) = 1

\* The request of the invocation the step has just suspended.
NewRequest == procs'[Len(procs')].req
\* The corners of a box in the order top-left, top-right, bottom-right,
\* bottom-left.
FixedOrderCorners(box) ==
  LET minX == Min(box.start[1], box.end[1])
      maxX == Max(box.start[1], box.end[1])
      minY == Min(box.start[2], box.end[2])
      maxY == Max(box.start[2], box.end[2])
  IN  << <<minX, minY>>, <<maxX, minY>>, <<maxX, maxY>>, <<minX, maxY>> >>

(***************************************************************************)
(* C11. The estimation request lists, for every committed box and whatever *)
(* the direction of the drag, the corners (minX,minY), (maxX,minY),        *)
(* (maxX,maxY), (minX,maxY) in that order.                                 *)
(***************************************************************************)
C11_CornersInFixedOrder ==
  [][ Accepted =>
        /\ Len(NewRequest.boxes) = Len(completedBoxes)
        /\ \A k \in DOMAIN completedBoxes :
             NewRequest.boxes[k] = FixedOrderCorners(completedBoxes[k])
    ]_vars

(***************************************************************************)
(* C12. The height passed to the estimate call is 29.7 cm when the         *)
(* reference type is A4_PAPER and the custom height when it is DOOR_FRAME. *)
(* The custom height is 210 cm at the start and changes only when a value  *)
(* is entered, so a switch of the reference type preserves it.             *)
(***************************************************************************)
C12_CalibrationHeight ==
  /\ refHeight = DefaultRefHeight
  /\ [][ /\ Accepted =>
              /\ NewRequest.refType = refType
              /\ refType = A4_PAPER => NewRequest.refHeight = A4HeightCm
              /\ refType = DOOR_FRAME => NewRequest.refHeight = refHeight
         /\ refHeight' # refHeight =>
              (lastOp' = "setRefHeight" /\ refType = DOOR_FRAME /\ refType' = refType)
         /\ lastOp' = "setRefType" => refHeight' = refHeight
       ]_vars

\* An attempt was accepted with the A4 reference after a custom height had
\* been entered for the door-frame reference.
C12_Witness ==
  /\ lastOp = "startProcess"
  /\ Len(procs) = 1
  /\ refType = A4_PAPER
  /\ refHeight # DefaultRefHeight
  /\ procs[1].req.refHeight = A4HeightCm

\* The points the geometry editor holds: what getNormalizedCoords returned.
StoredPoints ==
  (IF startPoint = Null THEN {} ELSE { startPoint[1] })
    \cup (IF currentBox = Null THEN {} ELSE { currentBox[1].start, currentBox[1].end })

\* The pointer position getNormalizedCoords reads from the event.
PositionOf(e) ==
  IF e.touches # Null THEN << e.touches[1][1].clientX, e.touches[1][1].clientY >>
  ELSE << e.clientX, e.clientY >>
\* The coordinate claimed for position c on an axis where the image starts at
\* lo and is size wide: 0 before the image, 100 after it, the share between.
ExpectedPercent(c, lo, size) ==
  IF c < lo THEN 0
  ELSE IF c > lo + size THEN MaxCoord
  ELSE ((c - lo) * MaxCoord) \div size

(***************************************************************************)
(* C13. For every pointer position and every bounding rectangle of the     *)
(* rendered image, both coordinates of the point the mapping returns lie   *)
(* in [0,100]: a position inside the image gives (offset / size) * 100 on  *)
(* each axis and a position outside is clamped to 0 or 100; so does every  *)
(* point the handlers have stored.                                         *)
(***************************************************************************)
C13_CoordsInRange ==
  /\ \A p \in StoredPoints : p[1] \in 0..MaxCoord /\ p[2] \in 0..MaxCoord
  /\ \A e \in PointerEvents :
       LET p == GetNormalizedCoords(e, Some(imgRect))[1]
           pos == PositionOf(e)
       IN  /\ p[1] \in 0..MaxCoord /\ p[2] \in 0..MaxCoord
           /\ p[1] = ExpectedPercent(pos[1], imgRect.left, imgRect.width)
           /\ p[2] = ExpectedPercent(pos[2], imgRect.top, imgRect.height)

\* On the small layout, the mouse was pressed on the top left corner of the
\* image and moved to its last pixel, at (95, 97.5).
C13_Witness ==
  /\ lastOp = "handleMouseMove"
  /\ imgRect.width = 20
  /\ currentBox # Null
  /\ currentBox[1].start = << 0, 0 >>
  /\ currentBox[1].end = << 950, 975 >>

\* The strip width of the prompt's calculation rule (geminiService.ts:47), in
\* tenths of a centimetre.
RollWidthCm == 700
CeilDiv(a, b) == (a + b - 1) \div b
\* The sum over the regions, from region i on, of ceil(width_cm / 70).
RECURSIVE StripsFrom(_, _)
StripsFrom(regions, i) ==
  IF i > Len(regions) THEN 0
  ELSE CeilDiv(regions[i].width_cm, RollWidthCm) + StripsFrom(regions, i + 1)

(***************************************************************************)
(* C14. The total_rolls_estimated of a stored EstimationResult is the sum  *)
(* over its regions of ceil(width_cm / 70).                                *)
(***************************************************************************)
C14_TotalIsSumOfStrips ==
  (metadata # Null /\ metadata[1].regions # Null
     /\ metadata[1].total_rolls_estimated # Null) =>
    metadata[1].total_rolls_estimated[1] = StripsFrom(metadata[1].regions[1], 1)

(***************************************************************************)
(* C15. When the upload of a room image completes, the committed boxes,    *)
(* the EstimationResult, the preview and the error slot are cleared,       *)
(* whatever the session state; when the upload of a wallpaper image        *)
(* completes, only the wallpaper image changes.                            *)
(***************************************************************************)
C15_UploadEffects ==
  [][ lastOp' = "reader.onloadend" =>
        \E r \in BagToSet(readers) :
          /\ readers' = readers (-) SetToBag({ r })
          /\ IF r.setter = "setRoomImage"
             THEN /\ roomImage' = Some([data |-> r.file.b64, mimeType |-> r.file.type])
                  /\ completedBoxes' = << >>
                  /\ metadata' = Null
                  /\ visualizedImage' = Null
                  /\ error' = Null
                  /\ wallpaperImage' = wallpaperImage
             ELSE /\ wallpaperImage' = Some([data |-> r.file.b64, mimeType |-> r.file.type])
                  /\ roomImage' = roomImage
                  /\ completedBoxes' = completedBoxes
                  /\ metadata' = metadata
                  /\ visualizedImage' = visualizedImage
                  /\ error' = error
    ]_vars

\* The upload of a room image has completed during Generating and cleared the
\* EstimationResult the attempt had stored.
C15_Witness ==
  /\ lastOp = "reader.onloadend"
  /\ Generating
  /\ procs # << >>
  /\ roomImage # Null
  /\ wallpaperImage # Null
  /\ metadata = Null
  /\ completedBoxes = << >>

\* The step resumes the only suspended invocation with a failure.
ResumesWithFailure ==
  /\ ResumesEstimate \/ ResumesRender
  /\ \/ Answer.kind = "throw"
     \/ ResumesEstimate /\ ~EstimateSucceeded(Answer)
     \/ ResumesRender /\ ~RenderSucceeded(Answer)

(***************************************************************************)
(* C16. A failure of the estimate or of the render call that carries the   *)
(* authentication signature does not show the generic message: the error   *)
(* slot stays null, both busy flags are cleared (Idle) and the credential  *)
(* screen is shown, with the selection dialog opened where the host page   *)
(* offers one. Every other failure takes the generic-error path and leaves *)
(* the credential state alone.                                             *)
(***************************************************************************)
C16_AuthFailurePrompts ==
  [][ ResumesWithFailure =>
        IF IsAuthFailure(Answer)
        THEN /\ error = Null /\ error' = Null
             /\ Idle'
             /\ procs' = << >>
             /\ KeyScreen'
             /\ keyDialogs' \in { keyDialogs, keyDialogs + 1 }
        ELSE /\ error' = Some(SynthesisFailedMsg)
             /\ keySelected' = keySelected
             /\ keyDialogs' = keyDialogs
    ]_vars

\* A render call has failed with the authentication signature: the credential
\* screen is up, its dialog is open, and no message is shown.
C16_Witness ==
  /\ lastOp = "afterRender"
  /\ KeyScreen
  /\ keyDialogs = 1
  /\ error = Null
  /\ Idle
  /\ metadata # Null

(***************************************************************************)
(* C17. An attempt that passes the precondition check clears the error     *)
(* slot; while the session is in Analyzing or Generating the error slot is *)
(* null; the error slot holds at most one message.                         *)
(***************************************************************************)
C17_ErrorClearedWhileBusy ==
  [][ /\ Accepted => error' = Null
      /\ Busy' => error' = Null
      /\ Len(error') <= 1
    ]_vars

\* A new attempt was accepted after an attempt that had stored a payload
\* without regions and failed with the generic message.
C17_Witness ==
  /\ lastOp = "startProcess"
  /\ Analyzing
  /\ error = Null
  /\ metadata = Some(EmptyPayload)

(***************************************************************************)
(* C18. handleMouseUp always leaves the drawing state and discards the box *)
(* in progress. While drawing, a box that passes the threshold is appended *)
(* at the end of the committed list and any other box is dropped; while    *)
(* not drawing the committed list is unchanged.                            *)
(***************************************************************************)
C18_CommitAppendsInOrder ==
  [][ lastOp' = "handleMouseUp" =>
        /\ ~isDrawing' /\ currentBox' = Null /\ startPoint' = Null
        /\ IF isDrawing /\ currentBox # Null
                /\ ExceedsThreshold(currentBox[1].end[1], currentBox[1].start[1])
                /\ ExceedsThreshold(currentBox[1].end[2], currentBox[1].start[2])
           THEN completedBoxes' = completedBoxes \o << currentBox[1] >>
           ELSE completedBoxes' = completedBoxes
    ]_vars

\* Two boxes were committed one after the other, the first dragged down and
\* to the right, the second up and to the left.
C18_Witness ==
  /\ lastOp = "handleMouseUp"
  /\ ~isDrawing
  /\ currentBox = Null
  /\ Len(completedBoxes) = 2
  /\ completedBoxes[1].start = completedBoxes[2].end
  /\ completedBoxes[1].end = completedBoxes[2].start
  /\ completedBoxes[1].start[1] < completedBoxes[1].end[1]

(***************************************************************************)
(* C19. handleMouseMove while drawing sets the end point of the box in     *)
(* progress to the new point and keeps its start point, which is the point *)
(* of the mouse-down; while not drawing there is no box in progress and    *)
(* none is made; the committed list is never changed.                      *)
(***************************************************************************)
C19_MoveSetsEndOnly ==
  [][ lastOp' = "handleMouseMove" =>
        /\ completedBoxes' = completedBoxes
        /\ startPoint' = startPoint
        /\ isDrawing' = isDrawing
        /\ IF isDrawing
           THEN /\ currentBox # Null /\ currentBox' # Null /\ startPoint # Null
                /\ currentBox'[1].start = currentBox[1].start
                /\ currentBox'[1].start = startPoint[1]
                /\ \E e \in MouseEvents :
                     Some(currentBox'[1].end) = GetNormalizedCoords(e, Some(imgRect))
           ELSE currentBox = Null /\ currentBox' = Null
    ]_vars

\* A move while drawing has taken the end point away from the start point.
C19_Witness ==
  /\ lastOp = "handleMouseMove"
  /\ isDrawing
  /\ currentBox # Null
  /\ currentBox[1].start = startPoint[1]
  /\ currentBox[1].end # currentBox[1].start

(***************************************************************************)
(* C20. The analyzing flag and the generating flag are never both set, and *)
(* while an invocation of startProcess is suspended at a call exactly one  *)
(* of them is set.                                                         *)
(***************************************************************************)
C20_BusyFlagsExclusive ==
  /\ ~(isAnalyzing /\ isGenerating)
  /\ procs # << >> => (isAnalyzing \/ isGenerating)
  /\ \A i \in DOMAIN procs : (procs[i].pc = "estimate") = isAnalyzing

\* The answer to the render call has arrived and the invocation has not yet
\* resumed: the generating flag alone is set.
C20_Witness ==
  /\ lastOp = "service"
  /\ procs # << >>
  /\ procs[1].pc = "render"
  /\ procs[1].resp # Null
  /\ isGenerating
  /\ ~isAnalyzing

\* The handlers of the geometry editor.
EditorOps == { "handleMouseDown", "handleMouseMove", "handleMouseUp", "undoLastBox" }

(***************************************************************************)
(* C21. While an estimate or render call is outstanding (Analyzing or      *)
(* Generating) no handler of the geometry editor runs, so from acceptance  *)
(* to the end of the attempt those handlers do not change the committed    *)
(* list.                                                                   *)
(***************************************************************************)
C21_EditorIdleWhileBusy ==
  [][ lastOp' \in EditorOps => (~Busy /\ procs = << >> /\ procs' = << >>) ]_vars

\* A call is outstanding while a box that passes the threshold is still in
\* progress: it cannot be committed before the attempt ends.
C21_Witness ==
  /\ procs # << >>
  /\ Busy
  /\ isDrawing
  /\ currentBox # Null
  /\ ExceedsThreshold(currentBox[1].end[1], currentBox[1].start[1])
  /\ ExceedsThreshold(currentBox[1].end[2], currentBox[1].start[2])
  /\ roomImage # Null

\* An invocation of startProcess is still suspended after a reset or a new
\* room image has emptied the committed list it was accepted with.
Superseded == procs # << >> /\ completedBoxes = << >>

(***************************************************************************)
(* C22. After a reset or a completed room upload during an outstanding     *)
(* call, the answers that arrive for the attempt started before it do not  *)
(* repopulate the session: the EstimationResult and the preview stay null. *)
(***************************************************************************)
C22_NoLateRepopulation ==
  [][ Superseded => (metadata' = Null /\ visualizedImage' = Null) ]_vars

(***************************************************************************)
(* C24. The completion of a room upload cancels a drawing in progress, so  *)
(* that a box begun on the earlier room image is never committed on the    *)
(* new one.                                                                *)
(***************************************************************************)
C24_RoomUploadCancelsDrawing ==
  [][ ( /\ lastOp' = "reader.onloadend"
        /\ \E r \in BagToSet(readers) :
             r.setter = "setRoomImage" /\ readers' = readers (-) SetToBag({ r }) ) =>
        (~isDrawing' /\ startPoint' = Null /\ currentBox' = Null)
    ]_vars

(***************************************************************************)
(* C23. Provided every service call settles, every accepted attempt ends:  *)
(* its invocation is gone and both busy flags are clear; the session does  *)
(* not stay in Analyzing or Generating forever.                            *)
(***************************************************************************)
C23_AttemptTerminates ==
  /\ (procs # << >>) ~> (procs = << >> /\ ~isAnalyzing /\ ~isGenerating)
  /\ Busy ~> ~Busy

\* An attempt has ended in Done: preview and result set, both flags clear.
C23_Witness ==
  /\ lastOp = "afterRender"
  /\ procs = << >>
  /\ ~isAnalyzing /\ ~isGenerating
  /\ visualizedImage # Null
  /\ metadata # Null
  /\ error = Null

====
